---------------------------- MODULE Spec2Model ----------------------------
(***************************************************************************)
(* Model of src/src/cm-upgrade.ts: the automatic CMake upgrade workflow.   *)
(*                                                                         *)
(* maybeUpgradeCMake is an async function.  JavaScript runs each piece of  *)
(* it between two awaits (or between two I/O callbacks) without            *)
(* interruption, so every action below is one such piece: the code that    *)
(* runs from one suspension point to the next.  Several invocations may be *)
(* outstanding at once (nothing in the file prevents it); each one is a    *)
(* member of Procs with its own position pc[p] and its own locals.         *)
(***************************************************************************)
EXTENDS Integers, Sequences, FiniteSets, TLC

(***************************************************************************)
(* Bounds of the model.                                                    *)
(***************************************************************************)
\* Outstanding invocations that may overlap.
Procs == {1, 2}

\* process.platform of the host: fixed for the life of the process.
Platforms == {"linux", "win32", "darwin"}

Hour == 1000 * 60 * 60

\* The days the model runs over.
MaxDays == 2

\* The instants (epoch milliseconds, relative to the first one) at which the
\* clock is observed: every midnight, and one hour either side of the
\* two-day mark, which puts 47 h, exactly 48 h and 49 h between two reads.
ClockStops == {d * 24 * Hour : d \in 0..MaxDays} \cup {47 * Hour, 49 * Hour}

\* A string is the sequence of its characters.
Str_3_19_2   == <<"3", ".", "1", "9", ".", "2">>
Str_3_10_0   == <<"3", ".", "1", "0", ".", "0">>
Str_3_9_0    == <<"3", ".", "9", ".", "0">>
Str_3_10     == <<"3", ".", "1", "0">>
Str_3_10_0_1 == <<"3", ".", "1", "0", ".", "0", ".", "1">>
Str_v3_19_2  == <<"v", "3", ".", "1", "9", ".", "2">>
Str_empty    == <<>>

\* opt.available.version: the advertised version, a string.
AvailableVersions ==
  {Str_3_19_2, Str_3_10_0, Str_3_9_0, Str_3_10, Str_3_10_0_1, Str_v3_19_2, Str_empty}

\* opt.currentVersion: the detected version, already a Version.
CurrentVersions == {<<3, 10, 0>>}

\* Exit codes of the installer process.
ExitCodes == {0, 1, 126, 127, 128}

\* HTTP status of the final response (redirects are followed by the transport).
StatusCodes == {200, 404, 500}

\* opt.available when the caller has no release information to pass.
NoAvailable == <<"undefined">>

\* res.headers['content-length']: absent (or empty), "0", "200", and a value
\* that is no number.
ContentLengths == {<<>>, <<"0">>, <<"2", "0", "0">>, <<"a", "b", "c">>}

\* data.length of the chunks a response body arrives in: against a total of
\* 200 bytes, half a percent, exactly one percent, and nearly everything.
ChunkSizes == {1, 2, 197}

\* The 'data' events of one response.
MaxChunks == 4

(***************************************************************************)
(* Version Model (@cmt/util: parseVersion, compareVersions, versionLess).  *)
(***************************************************************************)
Digits == {"0", "1", "2", "3", "4", "5", "6", "7", "8", "9"}

DigitValue(c) ==
  CASE c = "0" -> 0 [] c = "1" -> 1 [] c = "2" -> 2 [] c = "3" -> 3 [] c = "4" -> 4
    [] c = "5" -> 5 [] c = "6" -> 6 [] c = "7" -> 7 [] c = "8" -> 8 [] c = "9" -> 9

\* The components of a string of digits and dots, read left to right: acc is
\* the components completed so far, cur the value of the digits of the one
\* being read.
RECURSIVE SplitComponents(_, _, _)
SplitComponents(s, acc, cur) ==
  IF s = <<>> THEN Append(acc, cur)
  ELSE IF Head(s) = "." THEN SplitComponents(Tail(s), Append(acc, cur), 0)
  ELSE SplitComponents(Tail(s), acc, 10 * cur + DigitValue(Head(s)))

\* A version string holds digit-and-dot tokens only: it is not empty, every
\* character is a digit or a dot, and every component has a digit.
IsVersionString(s) ==
  /\ s # <<>>
  /\ \A i \in 1..Len(s) : s[i] \in Digits \cup {"."}
  /\ s[1] # "."
  /\ s[Len(s)] # "."
  /\ \A i \in 1..(Len(s) - 1) : ~(s[i] = "." /\ s[i + 1] = ".")

\* parseVersion: the Version of a string, or the InvalidVersionString failure.
parseVersion(s) ==
  IF IsVersionString(s)
    THEN [ok |-> TRUE, version |-> SplitComponents(s, <<>>, 0)]
    ELSE [ok |-> FALSE, version |-> <<>>]

\* Component i of a version, missing trailing components being zero.
Component(v, i) == IF i <= Len(v) THEN v[i] ELSE 0

\* compare: the first component that differs decides.
RECURSIVE CompareFrom(_, _, _)
CompareFrom(a, b, i) ==
  IF i > Len(a) /\ i > Len(b) THEN "equal"
  ELSE IF Component(a, i) < Component(b, i) THEN "less"
  ELSE IF Component(a, i) > Component(b, i) THEN "greater"
  ELSE CompareFrom(a, b, i + 1)

compareVersions(a, b) == CompareFrom(a, b, 1)

\* versionLess(lhs, rhs) with lhs a Version and rhs a string: "true", "false",
\* or "InvalidVersionString" when rhs does not parse (the exception thrown).
versionLess(lhs, rhs) ==
  LET r == parseVersion(rhs) IN
  IF ~r.ok THEN "InvalidVersionString"
  ELSE IF compareVersions(lhs, r.version) = "less" THEN "true"
  ELSE "false"

(***************************************************************************)
(* Preference Store: the value of globalState[UPGRADE_PREFERENCE_KEY].     *)
(***************************************************************************)
Undefined == [kind |-> "undefined"]
Never == [kind |-> "never"]
UpgradeDelay(t) == [kind |-> "UpgradeDelay", lastNag |-> t]

\* Only ask every two days.
NagDelay == 1000 * 60 * 60 * 48

(***************************************************************************)
(* State.                                                                  *)
(***************************************************************************)
VARIABLES
  platform,     \* process.platform
  now,          \* what new Date().getTime() returns
  globalState,  \* ext.globalState's value under UPGRADE_PREFERENCE_KEY
  pc,           \* where each invocation of maybeUpgradeCMake stands
  opt,          \* its argument: {currentVersion, available}
  pref,         \* its local pref (line 140)
  chosen,       \* its local chosen (line 171)
  pkexec,       \* installLinux's local pkexec (line 91)
  download,     \* the promise of its downloadFile call
  res,          \* installLinux's local res (line 104): the installer's result
  effects,      \* what it has done to the host so far, in order
  ret,          \* how its promise settled
  rollbar,      \* what it reported to rollbar (lines 157-159)
  tmpfile,      \* the temp file of its download: <<>> while there is none,
                \* <<n>> once it is on disk with n bytes piped into it
  statusCode,   \* res.statusCode of the response (line 49)
  totalSize,    \* downloadFile's totalSize (line 54)
  prevDownloaded,   \* downloadFile's prevDownloaded (line 61)
  totalDownloaded,  \* downloadFile's totalDownloaded (line 62)
  chunks,       \* the 'data' events of the response so far
  progress,     \* what pr.report has been given (lines 69-72), in order
  cancelRequested,  \* the cancellation token of the download's progress
  ostream,      \* the write stream of the temp file (line 45)
  restart       \* the answer to the success message (line 124)

\* The state of a download.
dlVars == <<tmpfile, statusCode, totalSize, prevDownloaded, totalDownloaded, chunks,
            progress, cancelRequested, ostream>>

vars == <<platform, now, globalState, pc, opt, pref, chosen, pkexec, download, res, effects, ret,
          rollbar, restart, dlVars>>

NoOpt == [currentVersion |-> <<>>, available |-> <<>>]
NotRead == [kind |-> "not read"]
NoChoice == "none"

\* The choices of the upgrade prompt (lines 167-169); "undefined" is the
\* dialog dismissed.
doTheUpgrade == "Yes"
askMeLater == "Ask me Later"
dontAskAgain == "Don't Ask Me Again"
Dismissed == "undefined"
restartNow == "Restart Now"

\* Effects on the host.
Effect(op, arg) == [op |-> op, arg |-> arg]
UpgradePrompt == Effect("showInformationMessage", "There is a new version of CMake available")
NeedPkexecError == Effect("showErrorMessage", "CMake Tools needs pkexec program to run the CMake installer")
AuthorizeError == Effect("showErrorMessage", "Failed to authorize for running the CMake installation.")
DismissedError == Effect("showErrorMessage", "You dismissed the request for permission to perform the CMake installation.")
NonZeroError == Effect("showErrorMessage", "The CMake installer exited with non-zero")
SuccessMessage == Effect("showInformationMessage", "The new CMake is successfull installed")
ReloadWindow == Effect("executeCommand", "workbench.action.reloadWindow")
TmpFile == Effect("tmp.file", "")
HttpsGet == Effect("https.get", "linuxURL")
LogErrorStderr == Effect("log.error", "stderr")
LogInfoDownloaded(fpath) == Effect("log.info", fpath)
ExecuteInstaller(installerPath) == Effect("execute", installerPath)

RollbarException ==
  Effect("rollbar.exception", "Error comparing CMake versions for potential upgrade")

\* The write stream: its state ("none", "open", "ended" once end() was
\* called, "closed" once the descriptor is closed) and the bytes written to
\* it that are not on disk yet.
NoStream == [state |-> "none", pending |-> 0]

\* A JavaScript number: an integer or NaN.
Num(n) == [nan |-> FALSE, val |-> n]
NaN == [nan |-> TRUE, val |-> 0]

\* The longest prefix of s made of digits.
RECURSIVE DigitPrefix(_)
DigitPrefix(s) ==
  IF s = <<>> \/ Head(s) \notin Digits THEN <<>>
  ELSE <<Head(s)>> \o DigitPrefix(Tail(s))

\* The number a sequence of digits denotes.
RECURSIVE DigitsValue(_)
DigitsValue(ds) ==
  IF ds = <<>> THEN 0
  ELSE 10 * DigitsValue(SubSeq(ds, 1, Len(ds) - 1)) + DigitValue(ds[Len(ds)])

\* JavaScript's parseInt on a string without sign or leading blanks: the
\* number of its leading digits, NaN when there is none.  It never throws.
parseInt(s) ==
  LET ds == DigitPrefix(s) IN IF ds = <<>> THEN NaN ELSE Num(DigitsValue(ds))

\* JavaScript's conversion of a string to a number, as the subtraction of
\* line 147 applies it: the number the whole string denotes, 0 for the
\* empty string, NaN otherwise.
ToNumber(s) ==
  IF s = <<>> THEN Num(0)
  ELSE IF DigitPrefix(s) = s THEN Num(DigitsValue(s))
  ELSE NaN

\* Values the store can hold that the file never writes: another string, an
\* empty object, an object whose lastNag is a string.
OtherString == [kind |-> "string"]
EmptyObject == [kind |-> "object"]
TextNag(s) == [kind |-> "object", lastNagText |-> s]
Unrecognized == {OtherString, EmptyObject, TextNag(<<"a", "b", "c">>), TextNag(<<"0">>)}

\* pref.lastNag as the subtraction of line 147 takes it: a property that is
\* missing reads as undefined, which converts to NaN.
LastNagOf(v) ==
  IF v.kind = "UpgradeDelay" THEN Num(v.lastNag)
  ELSE IF "lastNagText" \in DOMAIN v THEN ToNumber(v.lastNagText)
  ELSE NaN

\* What paths.which('pkexec') resolves with when the helper is installed.
PkexecPath == "/usr/bin/pkexec"

\* The path tmp.file gives the temp file of invocation p.
TmpPath(p) == "/tmp/cmake-" \o ToString(p) \o ".sh"

Init ==
  /\ platform \in Platforms
  /\ now = 0
  /\ globalState = Undefined
  /\ pc = [p \in Procs |-> "idle"]
  /\ opt = [p \in Procs |-> NoOpt]
  /\ pref = [p \in Procs |-> NotRead]
  /\ chosen = [p \in Procs |-> NoChoice]
  /\ pkexec = [p \in Procs |-> "none"]
  /\ download = [p \in Procs |-> "none"]
  /\ res = [p \in Procs |-> <<>>]
  /\ effects = [p \in Procs |-> <<>>]
  /\ ret = [p \in Procs |-> "pending"]
  /\ rollbar = [p \in Procs |-> <<>>]
  /\ tmpfile = [p \in Procs |-> <<>>]
  /\ statusCode = [p \in Procs |-> <<>>]
  /\ totalSize = [p \in Procs |-> Num(0)]
  /\ prevDownloaded = [p \in Procs |-> 0]
  /\ totalDownloaded = [p \in Procs |-> 0]
  /\ chunks = [p \in Procs |-> 0]
  /\ progress = [p \in Procs |-> <<>>]
  /\ cancelRequested = [p \in Procs |-> FALSE]
  /\ ostream = [p \in Procs |-> NoStream]
  /\ restart = [p \in Procs |-> NoChoice]


(***************************************************************************)
(* Helpers of the actions.                                                 *)
(***************************************************************************)
\* The invocation's promise settles: "undefined" and "null" are the values it
\* resolves with, "rejected" is an exception leaving maybeUpgradeCMake.
Returns(p, how) ==
  /\ pc' = [pc EXCEPT ![p] = "returned"]
  /\ ret' = [ret EXCEPT ![p] = how]

Does(p, es) == effects' = [effects EXCEPT ![p] = effects[p] \o es]

\* Mutant: the platform check is missing.
ImplementedEverywhere(pf) == TRUE

\* Lines 136-139: only implemented on Linux so far.
Implemented(pf) == pf = "linux"

\* Mutant: the 'never' branch is missing.
PreferenceBlocksForgetsNever(v, t) ==
  IF v \in {Never, Undefined} THEN FALSE
  ELSE t - v.lastNag < NagDelay

\* Mutant: the deferral still blocks at exactly two days.
PreferenceBlocksInclusive(v, t) ==
  IF v = Never THEN TRUE
  ELSE IF v # Undefined THEN t - v.lastNag <= NagDelay
  ELSE FALSE

\* Lines 141-151: the stored preference ends the invocation.  v is the value
\* read from the store, t the clock read at line 146.  Line 144 takes every
\* value but undefined for a deferral (the values modelled are all truthy),
\* and a comparison with NaN is false.
PreferenceBlocks(v, t) ==
  IF v = Never THEN TRUE
  ELSE IF v # Undefined
    THEN LET lastNag == LastNagOf(v) IN ~lastNag.nan /\ t - lastNag.val < NagDelay
  ELSE FALSE

\* versionLess over the arguments the model calls it with, computed once.
VersionLessOf ==
  [cur \in CurrentVersions |-> [adv \in AvailableVersions |-> versionLess(cur, adv)]]

\* Line 155: the comparison of the eligibility check.  Reading the version of
\* release information that is undefined throws a TypeError inside the try.
CompareForUpgrade(o) ==
  IF o.available = NoAvailable THEN "TypeError"
  ELSE VersionLessOf[o.currentVersion][o.available]

\* Line 156: the comparison threw.
Thrown(upgradeAvailable) == upgradeAvailable \in {"InvalidVersionString", "TypeError"}

\* Mutant: only an invalid version string is caught.
AfterThrowRethrows(e) == IF e = "InvalidVersionString" THEN "null" ELSE "rejected"

\* Lines 156-161: the catch block catches every exception and returns null.
AfterThrow(e) == "null"

\* Mutant: every exception of the comparison is reported.
ReportedToRollbarAlways(e) == <<RollbarException>>

\* Lines 157-159: what the catch block reports to rollbar for the exception e.
ReportedToRollbar(e) ==
  IF e # "InvalidVersionString" THEN <<RollbarException>> ELSE <<>>

\* Every local of a download as it is before the download starts.
NoDownload(p) ==
  /\ tmpfile' = [tmpfile EXCEPT ![p] = <<>>]
  /\ statusCode' = [statusCode EXCEPT ![p] = <<>>]
  /\ totalSize' = [totalSize EXCEPT ![p] = Num(0)]
  /\ prevDownloaded' = [prevDownloaded EXCEPT ![p] = 0]
  /\ totalDownloaded' = [totalDownloaded EXCEPT ![p] = 0]
  /\ chunks' = [chunks EXCEPT ![p] = 0]
  /\ progress' = [progress EXCEPT ![p] = <<>>]
  /\ cancelRequested' = [cancelRequested EXCEPT ![p] = FALSE]
  /\ ostream' = [ostream EXCEPT ![p] = NoStream]

\* Mutant: the check of upgradeAvailable is missing.
NothingToDoNever(upgradeAvailable) == FALSE

\* Lines 162-165: nothing to do unless an upgrade is available.
NothingToDo(upgradeAvailable) == upgradeAvailable # "true"

\* Mutant: choosing "Yes" records a deferral too.
StoredAfterChoiceYesDefers(c, t, old) ==
  IF c = dontAskAgain THEN Never
  ELSE IF c \in {askMeLater, doTheUpgrade} THEN UpgradeDelay(t)
  ELSE old

\* Mutant: a dismissed prompt is taken for "Ask me Later".
StoredAfterChoiceDismissDefers(c, t, old) ==
  IF c = dontAskAgain THEN Never
  ELSE IF c \in {askMeLater, Dismissed} THEN UpgradeDelay(t)
  ELSE old

\* Mutant: the two choices write each other's value.
StoredAfterChoiceSwapped(c, t, old) ==
  IF c = askMeLater THEN Never
  ELSE IF c = dontAskAgain THEN UpgradeDelay(t)
  ELSE old

\* Lines 183-190: what the store holds after the user's choice c, made when
\* the clock reads t and the store holds old.
StoredAfterChoice(c, t, old) ==
  IF c = dontAskAgain THEN Never
  ELSE IF c = askMeLater THEN UpgradeDelay(t)
  ELSE old

\* Mutant: exit code 126 is reported as 127 is.
InstallOutcomeMerged(retc) ==
  IF retc \in {126, 127} THEN <<AuthorizeError>>
  ELSE IF retc # 0 THEN <<LogErrorStderr, NonZeroError>>
  ELSE <<SuccessMessage>>

\* Lines 114-131: what installLinux does once the installer exited with retc.
InstallOutcome(retc) ==
  IF retc = 127 THEN <<AuthorizeError>>
  ELSE IF retc = 126 THEN <<DismissedError>>
  ELSE IF retc # 0 THEN <<LogErrorStderr, NonZeroError>>
  ELSE <<SuccessMessage>>

(***************************************************************************)
(* maybeUpgradeCMake, lines 134-178: from the call to the first await.     *)
(***************************************************************************)
maybeUpgradeCMake(p, o) ==
  /\ pc[p] \in {"idle", "returned"}
  /\ opt' = [opt EXCEPT ![p] = o]
  /\ chosen' = [chosen EXCEPT ![p] = NoChoice]
  /\ pkexec' = [pkexec EXCEPT ![p] = "none"]
  /\ download' = [download EXCEPT ![p] = "none"]
  /\ res' = [res EXCEPT ![p] = <<>>]
  /\ restart' = [restart EXCEPT ![p] = NoChoice]
  /\ NoDownload(p)
  /\ IF ~Implemented(platform)
       THEN /\ pref' = [pref EXCEPT ![p] = NotRead]
            /\ effects' = [effects EXCEPT ![p] = <<>>]
            /\ rollbar' = [rollbar EXCEPT ![p] = <<>>]
            /\ Returns(p, "undefined")
       ELSE /\ pref' = [pref EXCEPT ![p] = globalState]
            /\ IF PreferenceBlocks(globalState, now)
                 THEN /\ effects' = [effects EXCEPT ![p] = <<>>]
                      /\ rollbar' = [rollbar EXCEPT ![p] = <<>>]
                      /\ Returns(p, "undefined")
                 ELSE LET upgradeAvailable == CompareForUpgrade(o) IN
                      IF Thrown(upgradeAvailable)
                        THEN /\ effects' = [effects EXCEPT ![p] = <<>>]
                             /\ rollbar' = [rollbar EXCEPT ![p] = ReportedToRollbar(upgradeAvailable)]
                             /\ Returns(p, AfterThrow(upgradeAvailable))
                        ELSE /\ rollbar' = [rollbar EXCEPT ![p] = <<>>]
                             /\ IF NothingToDo(upgradeAvailable)
                                  THEN /\ effects' = [effects EXCEPT ![p] = <<>>]
                                       /\ Returns(p, "undefined")
                                  ELSE /\ effects' = [effects EXCEPT ![p] = <<UpgradePrompt>>]
                                       /\ pc' = [pc EXCEPT ![p] = "prompt"]
                                       /\ ret' = [ret EXCEPT ![p] = "pending"]
  /\ UNCHANGED <<platform, now, globalState>>

Call(p) ==
  \E cur \in CurrentVersions, adv \in AvailableVersions \cup {NoAvailable} :
    maybeUpgradeCMake(p, [currentVersion |-> cur, available |-> adv])

\* Mutant: the return after "Ask me Later" is missing.
AnswerPromptLaterInstalls(p) ==
  /\ pc[p] = "prompt"
  /\ \E c \in {Dismissed, doTheUpgrade, askMeLater, dontAskAgain} :
       /\ chosen' = [chosen EXCEPT ![p] = c]
       /\ globalState' = StoredAfterChoice(c, now, globalState)
       /\ IF c = Dismissed
            THEN Returns(p, "undefined")
            ELSE IF c = dontAskAgain
              THEN /\ pc' = [pc EXCEPT ![p] = "update"]
                   /\ UNCHANGED ret
              ELSE IF platform = "linux"
                THEN /\ pc' = [pc EXCEPT ![p] = "which"]
                     /\ UNCHANGED ret
                ELSE Returns(p, "undefined")
  /\ UNCHANGED <<platform, now, opt, pref, pkexec, download, res, effects, rollbar, restart, dlVars>>

(***************************************************************************)
(* Lines 171-197 and 90-91: the prompt is answered (or dismissed); the     *)
(* code runs to the await of globalState.update or of paths.which.         *)
(* globalState.update changes the value a later get returns at once; its   *)
(* promise settles when the value is persisted.                            *)
(***************************************************************************)
AnswerPrompt(p) ==
  /\ pc[p] = "prompt"
  /\ \E c \in {Dismissed, doTheUpgrade, askMeLater, dontAskAgain} :
       /\ chosen' = [chosen EXCEPT ![p] = c]
       /\ globalState' = StoredAfterChoice(c, now, globalState)
       /\ IF c = Dismissed
            THEN Returns(p, "undefined")
            ELSE IF c \in {dontAskAgain, askMeLater}
              THEN /\ pc' = [pc EXCEPT ![p] = "update"]
                   /\ UNCHANGED ret
              ELSE IF platform = "linux"
                THEN /\ pc' = [pc EXCEPT ![p] = "which"]
                     /\ UNCHANGED ret
                ELSE Returns(p, "undefined")
  /\ UNCHANGED <<platform, now, opt, pref, pkexec, download, res, effects, rollbar, restart, dlVars>>

\* Lines 184-185 and 188-189: the update is persisted and the function returns.
UpdateDone(p) ==
  /\ pc[p] = "update"
  /\ Returns(p, "undefined")
  /\ UNCHANGED <<platform, now, globalState, opt, pref, chosen, pkexec, download, res, effects,
                 rollbar, restart, dlVars>>

\* Mutant: the temp file is asked for before pkexec is looked at.
WhichDoneDownloadsFirst(p) ==
  /\ pc[p] = "which"
  /\ \E found \in {"undefined", PkexecPath} :
       /\ pkexec' = [pkexec EXCEPT ![p] = found]
       /\ IF found = "undefined"
            THEN /\ Does(p, <<TmpFile, NeedPkexecError>>)
                 /\ Returns(p, "undefined")
                 /\ UNCHANGED download
            ELSE /\ Does(p, <<TmpFile>>)
                 /\ download' = [download EXCEPT ![p] = "pending"]
                 /\ pc' = [pc EXCEPT ![p] = "tmp.file"]
                 /\ UNCHANGED ret
  /\ UNCHANGED <<platform, now, globalState, opt, pref, chosen, res, rollbar, restart, dlVars>>

\* Mutant: the return after the pkexec error is missing.
WhichDoneNoReturn(p) ==
  /\ pc[p] = "which"
  /\ \E found \in {"undefined", PkexecPath} :
       /\ pkexec' = [pkexec EXCEPT ![p] = found]
       /\ Does(p, IF found = "undefined" THEN <<NeedPkexecError, TmpFile>> ELSE <<TmpFile>>)
       /\ download' = [download EXCEPT ![p] = "pending"]
       /\ pc' = [pc EXCEPT ![p] = "tmp.file"]
       /\ UNCHANGED ret
  /\ UNCHANGED <<platform, now, globalState, opt, pref, chosen, res, rollbar, restart, dlVars>>

(***************************************************************************)
(* installLinux, lines 91-103 and 36-38: paths.which answers; without      *)
(* pkexec the error is shown and installLinux returns, with it the         *)
(* download starts by asking for a temp file.                              *)
(***************************************************************************)
WhichDone(p) ==
  /\ pc[p] = "which"
  /\ \E found \in {"undefined", PkexecPath} :
       /\ pkexec' = [pkexec EXCEPT ![p] = found]
       /\ IF found = "undefined"
            THEN /\ Does(p, <<NeedPkexecError>>)
                 /\ Returns(p, "undefined")
                 /\ UNCHANGED download
            ELSE /\ Does(p, <<TmpFile>>)
                 /\ download' = [download EXCEPT ![p] = "pending"]
                 /\ pc' = [pc EXCEPT ![p] = "tmp.file"]
                 /\ UNCHANGED ret
  /\ UNCHANGED <<platform, now, globalState, opt, pref, chosen, res, rollbar, restart, dlVars>>

\* downloadFile's promise rejects: installLinux and maybeUpgradeCMake have no
\* handler around their awaits (lines 97 and 197), so the rejection leaves
\* maybeUpgradeCMake.
DownloadRejects(p, why) ==
  /\ download' = [download EXCEPT ![p] = why]
  /\ Returns(p, "rejected")

\* Lines 39-47 and 83-84: the callback of tmp.file.  Without err the file is
\* on disk, empty, when the callback runs; nothing in the file removes it.
TmpFileCallback(p) ==
  /\ pc[p] = "tmp.file"
  /\ \E outcome \in {"err", "throws", "ok"} :
       IF outcome = "err"
         THEN /\ DownloadRejects(p, "rejected: tmp.file")
              /\ UNCHANGED <<effects, tmpfile, ostream>>
         ELSE IF outcome = "throws"
           THEN /\ DownloadRejects(p, "rejected: exception")
                /\ tmpfile' = [tmpfile EXCEPT ![p] = <<0>>]
                /\ UNCHANGED <<effects, ostream>>
           ELSE /\ Does(p, <<HttpsGet>>)
                /\ tmpfile' = [tmpfile EXCEPT ![p] = <<0>>]
                /\ ostream' = [ostream EXCEPT ![p] = [state |-> "open", pending |-> 0]]
                /\ pc' = [pc EXCEPT ![p] = "request"]
                /\ UNCHANGED <<download, ret>>
  /\ UNCHANGED <<platform, now, globalState, opt, pref, chosen, pkexec, res, rollbar, restart>>
  /\ UNCHANGED <<statusCode, totalSize, prevDownloaded, totalDownloaded, chunks, progress,
                 cancelRequested>>

\* Lines 54-59: totalSize for the content-length header of the response.
TotalSizeOf(header) == parseInt(IF header = <<>> THEN <<"0">> ELSE header)

\* Mutant: the status of the response is not looked at.
RejectedStatusNone(code) == FALSE

\* Line 49: the status that makes downloadFile reject.
RejectedStatus(code) == code # 200

\* Lines 48-62: the response arrives.
Response(p) ==
  /\ pc[p] = "request"
  /\ \E code \in StatusCodes, header \in ContentLengths :
       /\ statusCode' = [statusCode EXCEPT ![p] = <<code>>]
       /\ IF RejectedStatus(code)
            THEN /\ DownloadRejects(p, "rejected: Non-200")
                 /\ UNCHANGED totalSize
            ELSE /\ totalSize' = [totalSize EXCEPT ![p] = TotalSizeOf(header)]
                 /\ pc' = [pc EXCEPT ![p] = "response"]
                 /\ UNCHANGED <<download, ret>>
  /\ UNCHANGED <<platform, now, globalState, opt, pref, chosen, pkexec, res, effects, rollbar, restart>>
  /\ UNCHANGED <<tmpfile, prevDownloaded, totalDownloaded, chunks, progress, cancelRequested,
                 ostream>>

\* Line 83: the request fails before a response arrived.
RequestError(p) ==
  /\ pc[p] = "request"
  /\ DownloadRejects(p, "rejected: request error")
  /\ UNCHANGED <<platform, now, globalState, opt, pref, chosen, pkexec, res, effects, rollbar, restart,
                 dlVars>>

\* Mutant: the check of totalSize is missing.
NotZeroAlways(size) == TRUE

\* Line 65: totalSize !== 0, which NaN satisfies.
NotZero(size) == size.nan \/ size.val # 0

\* Mutant: one percent is enough for a report.
ExceedsOnePercentInclusive(delta, size) ==
  /\ ~size.nan
  /\ IF size.val > 0 THEN 100 * delta >= size.val
     ELSE IF size.val = 0 THEN delta > 0
     ELSE 100 * delta <= size.val

\* Lines 66 and 68: diffPercent > 1 for delta unreported bytes, that is
\* 100 * delta / size > 1.  Every comparison with NaN is false, and a
\* division of a positive number by zero gives Infinity.
ExceedsOnePercent(delta, size) ==
  /\ ~size.nan
  /\ IF size.val > 0 THEN 100 * delta > size.val
     ELSE IF size.val = 0 THEN delta > 0
     ELSE 100 * delta < size.val

\* (num / den).toFixed(0) for num >= 0 and den >= 0: the nearest integer, the
\* larger one of two.
ToFixed0(num, den) ==
  IF den = 0 THEN (IF num = 0 THEN "NaN" ELSE "Infinity")
  ELSE ToString((2 * num + den) \div (2 * den))

\* Mutant: the increment is the percentage received so far.
ReportCumulative(total, prev, size) ==
  [increment |-> [num |-> 100 * total, den |-> size.val],
   message |-> ToFixed0(100 * total, size.val) \o "%"]

\* Lines 66-72: the report of a chunk; the increment is the fraction num/den.
Report(total, prev, size) ==
  [increment |-> [num |-> 100 * (total - prev), den |-> size.val],
   message |-> ToFixed0(100 * total, size.val) \o "%"]

\* The transport ends a body of a declared positive length after that many
\* bytes; a body of no declared length ends when the server says so.
Declared(size) == ~size.nan /\ size.val > 0

BodyComplete(p) == Declared(totalSize[p]) => totalDownloaded[p] = totalSize[p].val

\* Lines 63-77: a chunk of the body arrives; the pipe of line 77 writes it to
\* the stream of the temp file.
Data(p) ==
  /\ pc[p] = "response"
  /\ chunks[p] < MaxChunks
  /\ \E len \in ChunkSizes :
       LET total == totalDownloaded[p] + len
           size == totalSize[p]
           delta == total - prevDownloaded[p]
       IN  /\ Declared(size) => total <= size.val
           /\ totalDownloaded' = [totalDownloaded EXCEPT ![p] = total]
           /\ tmpfile' = [tmpfile EXCEPT ![p] = <<tmpfile[p][1] + len>>]
           /\ ostream' = [ostream EXCEPT ![p].pending = ostream[p].pending + len]
           /\ chunks' = [chunks EXCEPT ![p] = chunks[p] + 1]
           /\ IF NotZero(size) /\ ExceedsOnePercent(delta, size)
                THEN /\ progress' = [progress EXCEPT ![p] =
                                       Append(progress[p], Report(total, prevDownloaded[p], size))]
                     /\ prevDownloaded' = [prevDownloaded EXCEPT ![p] = total]
                ELSE UNCHANGED <<progress, prevDownloaded>>
  /\ UNCHANGED <<platform, now, globalState, pc, opt, pref, chosen, pkexec, download, res,
                 effects, ret, rollbar, restart, statusCode, totalSize, cancelRequested>>

\* The connection is lost before the body is complete.  A socket error is
\* emitted on the request (line 83).  A close without error is emitted as
\* 'aborted' on the response, for which no handler is registered: nothing in
\* the file runs.
ConnectionLost(p) ==
  /\ pc[p] = "response"
  /\ ~(Declared(totalSize[p]) /\ totalDownloaded[p] = totalSize[p].val)
  /\ \E event \in {"error", "aborted"} :
       IF event = "error"
         THEN DownloadRejects(p, "rejected: request error")
         ELSE /\ pc' = [pc EXCEPT ![p] = "aborted"]
              /\ UNCHANGED <<download, ret>>
  /\ UNCHANGED <<platform, now, globalState, opt, pref, chosen, pkexec, res, effects, rollbar, restart,
                 dlVars>>

\* The user asks to cancel the download while its progress is shown.  The
\* task given to withProgress (line 102) takes no token and downloadFile has
\* no parameter for one: nothing in the file runs.
Cancel(p) ==
  /\ pc[p] \in {"tmp.file", "request", "response", "aborted"}
  /\ ~cancelRequested[p]
  /\ cancelRequested' = [cancelRequested EXCEPT ![p] = TRUE]
  /\ UNCHANGED <<platform, now, globalState, pc, opt, pref, chosen, pkexec, download, res,
                 effects, ret, rollbar, restart, tmpfile, statusCode, totalSize, prevDownloaded,
                 totalDownloaded, chunks, progress, ostream>>

\* Mutant: the installer is started a second time.
EndRunsInstallerTwice(p) ==
  /\ \/ pc[p] = "response" /\ BodyComplete(p)
     \/ pc[p] = "aborted"
  /\ download' = [download EXCEPT ![p] = "resolved"]
  /\ Does(p, <<LogInfoDownloaded(TmpPath(p)), ExecuteInstaller(TmpPath(p)),
               ExecuteInstaller(TmpPath(p))>>)
  /\ pc' = [pc EXCEPT ![p] = "installer"]
  /\ totalSize' = [totalSize EXCEPT ![p] = Num(0)]
  /\ prevDownloaded' = [prevDownloaded EXCEPT ![p] = 0]
  /\ totalDownloaded' = [totalDownloaded EXCEPT ![p] = 0]
  /\ chunks' = [chunks EXCEPT ![p] = 0]
  /\ ostream' = [ostream EXCEPT ![p].state = "ended"]
  /\ UNCHANGED <<platform, now, globalState, opt, pref, chosen, pkexec, res, ret, rollbar, restart,
                 tmpfile, statusCode, progress, cancelRequested>>

\* Lines 78-81 and 104-112: the response ends, downloadFile resolves with the
\* path and installLinux runs the installer on it.  'end' comes after the
\* last byte of the body, and, on the runtimes that end a response they
\* aborted, after 'aborted'.  The locals of the response callback end here.
End(p) ==
  /\ \/ pc[p] = "response" /\ BodyComplete(p)
     \/ pc[p] = "aborted"
  /\ download' = [download EXCEPT ![p] = "resolved"]
  /\ Does(p, <<LogInfoDownloaded(TmpPath(p)), ExecuteInstaller(TmpPath(p))>>)
  /\ pc' = [pc EXCEPT ![p] = "installer"]
  /\ totalSize' = [totalSize EXCEPT ![p] = Num(0)]
  /\ prevDownloaded' = [prevDownloaded EXCEPT ![p] = 0]
  /\ totalDownloaded' = [totalDownloaded EXCEPT ![p] = 0]
  /\ chunks' = [chunks EXCEPT ![p] = 0]
  /\ ostream' = [ostream EXCEPT ![p].state = "ended"]
  /\ UNCHANGED <<platform, now, globalState, opt, pref, chosen, pkexec, res, ret, rollbar, restart,
                 tmpfile, statusCode, progress, cancelRequested>>

\* The file system has written what was pending in the write stream.
Written(p) ==
  /\ ostream[p].pending > 0
  /\ ostream' = [ostream EXCEPT ![p].pending = 0]
  /\ UNCHANGED <<platform, now, globalState, pc, opt, pref, chosen, pkexec, download, res,
                 effects, ret, rollbar, restart, tmpfile, statusCode, totalSize, prevDownloaded,
                 totalDownloaded, chunks, progress, cancelRequested>>

\* The ended write stream, with nothing pending, has finished and closed its
\* descriptor.
Closed(p) ==
  /\ ostream[p] = [state |-> "ended", pending |-> 0]
  /\ ostream' = [ostream EXCEPT ![p].state = "closed"]
  /\ UNCHANGED <<platform, now, globalState, pc, opt, pref, chosen, pkexec, download, res,
                 effects, ret, rollbar, restart, tmpfile, statusCode, totalSize, prevDownloaded,
                 totalDownloaded, chunks, progress, cancelRequested>>

\* Lines 114-127: the installer process exits.
InstallerExit(p) ==
  /\ pc[p] = "installer"
  /\ \E retc \in ExitCodes :
       /\ res' = [res EXCEPT ![p] = <<retc>>]
       /\ Does(p, InstallOutcome(retc))
       /\ IF retc = 0
            THEN /\ pc' = [pc EXCEPT ![p] = "restart"]
                 /\ UNCHANGED ret
            ELSE Returns(p, "undefined")
  /\ UNCHANGED <<platform, now, globalState, opt, pref, chosen, pkexec, download, rollbar, restart, dlVars>>

\* Mutant: the window is reloaded whatever the answer.
AfterRestartAnswerAlways(c) == <<ReloadWindow>>

\* Lines 128-130: what installLinux does with the answer to the success
\* message.
AfterRestartAnswer(c) == IF c = restartNow THEN <<ReloadWindow>> ELSE <<>>

\* Lines 128-131: the success message is answered or dismissed.
AnswerRestart(p) ==
  /\ pc[p] = "restart"
  /\ \E c \in {Dismissed, restartNow} :
       /\ restart' = [restart EXCEPT ![p] = c]
       /\ Does(p, AfterRestartAnswer(c))
  /\ Returns(p, "undefined")
  /\ UNCHANGED <<platform, now, globalState, opt, pref, chosen, pkexec, download, res, rollbar,
                 dlVars>>

\* Time passes.
Tick ==
  /\ \E t \in ClockStops : t > now /\ now' = t
  /\ UNCHANGED <<platform, globalState, pc, opt, pref, chosen, pkexec, download, res, effects, ret,
                 rollbar, restart, dlVars>>

Step(p) ==
  \/ AnswerPrompt(p)
  \/ UpdateDone(p)
  \/ WhichDone(p)
  \/ TmpFileCallback(p)
  \/ Response(p)
  \/ RequestError(p)
  \/ End(p)
  \/ InstallerExit(p)
  \/ AnswerRestart(p)

\* Invocations may overlap: the file has no guard against a call made while
\* another is outstanding.
Next ==
  \/ \E p \in Procs : Call(p)
  \/ \E p \in Procs : Step(p)
  \/ Tick

Spec == Init /\ [][Next]_vars

\* Invocations run one at a time: a call is made only when no other
\* invocation is outstanding.
NoneOutstanding == \A q \in Procs : pc[q] \in {"idle", "returned"}

NextSeq ==
  \/ \E p \in Procs : NoneOutstanding /\ Call(p)
  \/ \E p \in Procs : Step(p)
  \/ Tick

SpecSeq == Init /\ [][NextSeq]_vars

\* One caller, one invocation at a time, and everything a download can meet:
\* the chunks of the body, a lost connection, a request to cancel.  Spec and
\* SpecSeq follow a response without the chunks of its body.
Caller == CHOOSE p \in Procs : TRUE

NextDownload ==
  \/ Call(Caller)
  \/ Step(Caller)
  \/ Data(Caller)
  \/ ConnectionLost(Caller)
  \/ Cancel(Caller)
  \/ Written(Caller)
  \/ Closed(Caller)

SpecDownload == Init /\ [][NextDownload]_vars

\* One caller, and a store that holds, before the first call, a value the
\* file never writes.
InitStore ==
  /\ platform \in Platforms
  /\ now = 0
  /\ globalState \in Unrecognized
  /\ pc = [p \in Procs |-> "idle"]
  /\ opt = [p \in Procs |-> NoOpt]
  /\ pref = [p \in Procs |-> NotRead]
  /\ chosen = [p \in Procs |-> NoChoice]
  /\ pkexec = [p \in Procs |-> "none"]
  /\ download = [p \in Procs |-> "none"]
  /\ res = [p \in Procs |-> <<>>]
  /\ effects = [p \in Procs |-> <<>>]
  /\ ret = [p \in Procs |-> "pending"]
  /\ rollbar = [p \in Procs |-> <<>>]
  /\ tmpfile = [p \in Procs |-> <<>>]
  /\ statusCode = [p \in Procs |-> <<>>]
  /\ totalSize = [p \in Procs |-> Num(0)]
  /\ prevDownloaded = [p \in Procs |-> 0]
  /\ totalDownloaded = [p \in Procs |-> 0]
  /\ chunks = [p \in Procs |-> 0]
  /\ progress = [p \in Procs |-> <<>>]
  /\ cancelRequested = [p \in Procs |-> FALSE]
  /\ ostream = [p \in Procs |-> NoStream]
  /\ restart = [p \in Procs |-> NoChoice]

NextStore ==
  \/ Call(Caller)
  \/ Step(Caller)
  \/ Tick

SpecStore == InitStore /\ [][NextStore]_vars

\* SpecDownload with what the environment is assumed to do: the user answers
\* or dismisses each prompt and message, the host answers each request of
\* the file, the installer exits, and the transport delivers a response or
\* an error, and then chunks, the end of the body or the loss of the
\* connection.  Nothing is assumed of 'end' once 'aborted' was emitted.
SpecFair ==
  /\ Init /\ [][NextDownload]_vars
  /\ WF_vars(AnswerPrompt(Caller))
  /\ WF_vars(UpdateDone(Caller))
  /\ WF_vars(WhichDone(Caller))
  /\ WF_vars(TmpFileCallback(Caller))
  /\ WF_vars(Response(Caller) \/ RequestError(Caller))
  /\ WF_vars(pc[Caller] = "response"
               /\ (Data(Caller) \/ End(Caller) \/ ConnectionLost(Caller)))
  /\ WF_vars(InstallerExit(Caller))
  /\ WF_vars(AnswerRestart(Caller))

(***************************************************************************)
(* Vocabulary of the properties.                                           *)
(***************************************************************************)
Outstanding(p) == pc[p] \notin {"idle", "returned"}

\* This step is a call of maybeUpgradeCMake by p: only a call changes the
\* locals of an invocation that is not outstanding.
Invoked(p) ==
  /\ ~Outstanding(p)
  /\ <<pc'[p], opt'[p], pref'[p], chosen'[p], pkexec'[p], download'[p], res'[p], effects'[p], ret'[p]>>
       # <<pc[p], opt[p], pref[p], chosen[p], pkexec[p], download[p], res[p], effects[p], ret[p]>>

\* This step makes p's invocation return.
Returning(p) == Outstanding(p) /\ pc'[p] = "returned"

Shown(p, e) == \E i \in 1..Len(effects[p]) : effects[p][i] = e

ShowsAnError(p) == \E i \in 1..Len(effects[p]) : effects[p][i].op = "showErrorMessage"

TwoDays == 48 * Hour

\* The advertised version is a valid version strictly greater than the
\* current one.
AdvertisedGreater(o) ==
  /\ parseVersion(o.available).ok
  /\ compareVersions(parseVersion(o.available).version, o.currentVersion) = "greater"

\* p's invocation ended at once, having done nothing.
EndedSilently(p) ==
  /\ pc[p] = "returned"
  /\ effects[p] = <<>>
  /\ chosen[p] = NoChoice
  /\ pkexec[p] = "none"
  /\ download[p] = "none"
  /\ res[p] = <<>>

(***************************************************************************)
(* C1.  Invocations run one at a time: once the stored preference is       *)
(* 'never' it stays 'never' and no invocation shows the upgrade prompt,    *)
(* whatever the time and the versions of later calls.                      *)
(***************************************************************************)
C1_NeverBlocksEveryPrompt ==
  [][globalState = Never =>
       /\ globalState' = Never
       /\ \A p \in Procs : pc'[p] # "prompt" /\ (Invoked(p) => EndedSilently(p)')]_vars

\* A call made two days or more after 'never' was stored, with an upgrade
\* on offer, has returned without a prompt.
C1_Witness ==
  \E p \in Procs :
    /\ globalState = Never
    /\ pref[p] = Never
    /\ now >= TwoDays
    /\ AdvertisedGreater(opt[p])
    /\ EndedSilently(p)

(***************************************************************************)
(* C2.  A call made when the store holds {lastNag: t}: if now - t is less  *)
(* than 48 hours it ends at once with no prompt, no write and no download; *)
(* from exactly 48 hours on the deferral does not block and the outcome is *)
(* that of the version comparison (the prompt when an upgrade is on        *)
(* offer).                                                                 *)
(***************************************************************************)
C2_DeferralGate ==
  [][\A p \in Procs :
       (Invoked(p) /\ platform = "linux" /\ globalState.kind = "UpgradeDelay") =>
         /\ globalState' = globalState
         /\ IF now - globalState.lastNag < TwoDays
              THEN EndedSilently(p)' /\ ret'[p] = "undefined"
              ELSE IF AdvertisedGreater(opt'[p])
                THEN pc'[p] = "prompt" /\ effects'[p] = <<UpgradePrompt>>
                ELSE EndedSilently(p)'
                       /\ ret'[p] = (IF parseVersion(opt'[p].available).ok
                                       THEN "undefined" ELSE "null")]_vars

\* Exactly 48 hours after the deferral a call has shown the prompt.
C2_Witness ==
  \E p \in Procs :
    /\ pc[p] = "prompt"
    /\ pref[p] = UpgradeDelay(0)
    /\ globalState = UpgradeDelay(0)
    /\ now = TwoDays

(***************************************************************************)
(* C3.  On linux, with a preference that does not block, a call shows the  *)
(* upgrade prompt if and only if the advertised version is strictly        *)
(* greater than the current one; otherwise it ends at once with no prompt, *)
(* no write, no download and no installer.                                 *)
(***************************************************************************)
C3_PromptIffGreater ==
  [][\A p \in Procs :
       ( /\ Invoked(p)
         /\ platform = "linux"
         /\ \/ globalState = Undefined
            \/ globalState.kind = "UpgradeDelay" /\ now - globalState.lastNag >= TwoDays ) =>
         LET greater == AdvertisedGreater(opt'[p]) IN
         /\ globalState' = globalState
         /\ (pc'[p] = "prompt") <=> greater
         /\ Shown(p, UpgradePrompt)' <=> greater
         /\ ~greater => EndedSilently(p)']_vars

\* A call that offers 3.9.0 to a user of 3.10.0 has ended without a prompt.
C3_Witness ==
  \E p \in Procs :
    /\ platform = "linux"
    /\ pref[p] = Undefined
    /\ opt[p] = [currentVersion |-> <<3, 10, 0>>, available |-> Str_3_9_0]
    /\ EndedSilently(p)
    /\ ret[p] = "undefined"

(***************************************************************************)
(* C4.  Invocations run one at a time: when the user chose "Yes" and the   *)
(* download or the installation failed, the store holds at the return what *)
(* the invocation read at its start, and the next call with the same       *)
(* versions, whenever it is made, shows the prompt again.                  *)
(***************************************************************************)
FailedAfterYes(p) ==
  /\ pc[p] = "returned"
  /\ chosen[p] = doTheUpgrade
  /\ \/ ret[p] = "rejected"
     \/ ShowsAnError(p)

C4_FailureKeepsPreference ==
  [][\A p \in Procs :
       /\ (Returning(p) /\ FailedAfterYes(p)') => globalState' = pref[p]
       /\ ( /\ FailedAfterYes(p)
            /\ globalState = pref[p]
            /\ Invoked(p)
            /\ opt'[p] = opt[p] ) => pc'[p] = "prompt"]_vars

\* The invocations that failed after "Yes": one whose download was rejected
\* and one whose installer was refused the authorization, both started
\* from an expired deferral.
C4_Witness ==
  /\ \E p \in Procs :
       /\ FailedAfterYes(p)
       /\ ret[p] = "rejected"
       /\ pref[p] = UpgradeDelay(0)
       /\ globalState = UpgradeDelay(0)
  /\ \E p \in Procs :
       /\ FailedAfterYes(p)
       /\ res[p] = <<126>>
       /\ globalState = pref[p]

(***************************************************************************)
(* C5.  The stored preference changes only in the step in which the user   *)
(* answers the prompt with "Don't Ask Me Again" or "Ask me Later"; no      *)
(* other step of any path changes it.                                      *)
(***************************************************************************)
C5_OnlyAChoiceWrites ==
  [][globalState' # globalState =>
       \E p \in Procs :
         /\ pc[p] = "prompt"
         /\ pc'[p] = "update"
         /\ chosen'[p] \in {dontAskAgain, askMeLater}]_vars

\* An invocation that began with nothing stored has written a deferral
\* after the user's "Ask me Later".
C5_Witness ==
  \E p \in Procs :
    /\ pc[p] = "update"
    /\ chosen[p] = askMeLater
    /\ pref[p] = Undefined
    /\ globalState # Undefined

(***************************************************************************)
(* C6.  "Don't Ask Me Again" stores 'never' and "Ask me Later" stores      *)
(* {lastNag: now}, now being the clock when the answer is handled; the     *)
(* invocation then returns, having started no download and no installer.   *)
(***************************************************************************)
C6_ChoiceIsStored ==
  [][\A p \in Procs :
       /\ (pc[p] = "prompt" /\ chosen'[p] = dontAskAgain) =>
            globalState' = Never /\ pc'[p] = "update"
       /\ (pc[p] = "prompt" /\ chosen'[p] = askMeLater) =>
            globalState' = UpgradeDelay(now) /\ pc'[p] = "update"
       /\ pc[p] = "update" =>
            /\ pc'[p] \in {"update", "returned"}
            /\ effects'[p] = <<UpgradePrompt>>
            /\ pkexec'[p] = "none"
            /\ download'[p] = "none"
            /\ res'[p] = <<>>
            /\ ret'[p] \in {"pending", "undefined"}]_vars

\* A prompt shown when a deferral of instant 0 had expired was answered
\* "Ask me Later" at 49 h: the store holds the instant of the answer.
C6_Witness ==
  \E p \in Procs :
    /\ pc[p] = "returned"
    /\ chosen[p] = askMeLater
    /\ pref[p] = UpgradeDelay(0)
    /\ now = 49 * Hour
    /\ globalState = UpgradeDelay(49 * Hour)

(***************************************************************************)
(* C7.  When the user chose "Yes" and the download fails, the invocation   *)
(* shows an error notification and returns normally: the failure does not  *)
(* leave maybeUpgradeCMake as a rejection.                                 *)
(***************************************************************************)
DownloadFailed(p) ==
  download[p] \in {"rejected: tmp.file", "rejected: exception",
                   "rejected: Non-200", "rejected: request error"}

C7_DownloadFailureIsReported ==
  \A p \in Procs :
    DownloadFailed(p) => pc[p] = "returned" /\ ret[p] = "undefined" /\ ShowsAnError(p)

(***************************************************************************)
(* C8.  Once the installer exited, what installLinux does is decided by    *)
(* the exit code alone: 0 the success message with the restart offer, 127  *)
(* the authorization error, 126 the dismissed-request error, any other     *)
(* code the generic error with stderr logged; these four are different     *)
(* and exactly one of them is produced.                                    *)
(***************************************************************************)
\* What p did after it ran the installer.
AfterExecute(p) ==
  LET i == CHOOSE i \in 1..Len(effects[p]) : effects[p][i].op = "execute"
  IN SubSeq(effects[p], i + 1, Len(effects[p]))

Outcomes == {AuthorizeError, DismissedError, NonZeroError, SuccessMessage}

C8_ExitCodeDecidesOutcome ==
  /\ Cardinality(Outcomes) = 4
  /\ \A p \in Procs :
       res[p] # <<>> =>
         LET retc == res[p][1]
             did == AfterExecute(p)
         IN /\ Cardinality({i \in 1..Len(did) : did[i] \in Outcomes}) = 1
            /\ retc = 0 => did \in {<<SuccessMessage>>, <<SuccessMessage, ReloadWindow>>}
            /\ retc = 0 /\ did = <<SuccessMessage>> => pc[p] \in {"restart", "returned"}
            /\ retc = 127 => did = <<AuthorizeError>>
            /\ retc = 126 => did = <<DismissedError>>
            /\ retc \notin {0, 126, 127} => did = <<LogErrorStderr, NonZeroError>>

\* Two invocations whose installers exited with 126 and with 127.
C8_Witness ==
  /\ \E p \in Procs : res[p] = <<126>> /\ Shown(p, DismissedError)
  /\ \E p \in Procs : res[p] = <<127>> /\ Shown(p, AuthorizeError)

(***************************************************************************)
(* C9.  When pkexec is not on the path, installLinux shows an error        *)
(* message and returns normally; no temp file is asked for, no request is  *)
(* made and no installer is run.                                           *)
(***************************************************************************)
C9_MissingHelperIsReported ==
  \A p \in Procs :
    pkexec[p] = "undefined" =>
      /\ pc[p] = "returned"
      /\ ret[p] = "undefined"
      /\ effects[p] = <<UpgradePrompt, NeedPkexecError>>
      /\ download[p] = "none"
      /\ res[p] = <<>>

C9_Witness ==
  \E p \in Procs :
    /\ chosen[p] = doTheUpgrade
    /\ pkexec[p] = "undefined"
    /\ Shown(p, NeedPkexecError)
    /\ pc[p] = "returned"

(***************************************************************************)
(* C10.  On a platform other than linux every call ends at once and in     *)
(* silence: no prompt, no error, no read or write of the preference, no    *)
(* version comparison, no download and no installer.                       *)
(***************************************************************************)
C10_OtherPlatformsAreSilent ==
  platform # "linux" =>
    /\ globalState = Undefined
    /\ \A p \in Procs :
         /\ pc[p] \in {"idle", "returned"}
         /\ pref[p] = NotRead
         /\ pc[p] = "returned" => EndedSilently(p) /\ ret[p] = "undefined"

\* A call on win32 with a version string that does not parse has returned
\* undefined: the comparison, which would have returned null, was not made.
C10_Witness ==
  \E p \in Procs :
    /\ platform = "win32"
    /\ pc[p] = "returned"
    /\ opt[p].available = Str_v3_19_2
    /\ ret[p] = "undefined"

(***************************************************************************)
(* C11.  When the comparison of the eligibility check throws, an invalid   *)
(* version string or any other exception, the call ends in silence: its    *)
(* promise resolves (with null) instead of rejecting, no prompt and no     *)
(* error message is shown, the stored preference is not written, and no    *)
(* download or installation starts.                                        *)
(***************************************************************************)
C11_ThrowingComparisonEndsSilently ==
  [][\A p \in Procs :
       ( /\ Invoked(p)
         /\ platform = "linux"
         /\ ~PreferenceBlocks(globalState, now)
         /\ \/ opt'[p].available = NoAvailable
            \/ ~parseVersion(opt'[p].available).ok )
       => /\ pc'[p] = "returned"
          /\ ret'[p] = "null"
          /\ effects'[p] = <<>>
          /\ globalState' = globalState
          /\ chosen'[p] = NoChoice
          /\ pkexec'[p] = "none"
          /\ download'[p] = "none"
          /\ tmpfile'[p] = <<>>
          /\ res'[p] = <<>>]_vars

\* A call without release information has returned null: the TypeError of
\* line 155 was caught and reported to rollbar, and nothing was shown.
C11_Witness ==
  \E p \in Procs :
    /\ pc[p] = "returned"
    /\ opt[p].available = NoAvailable
    /\ rollbar[p] = <<RollbarException>>
    /\ ret[p] = "null"
    /\ effects[p] = <<>>

(***************************************************************************)
(* C12.  As claimed: whenever the comparison fails because of an invalid   *)
(* version string, the failure has been reported to rollbar when the call  *)
(* ends.                                                                   *)
(***************************************************************************)
ComparisonFailedInvalid(p) ==
  /\ pc[p] = "returned"
  /\ ret[p] = "null"
  /\ opt[p].available # NoAvailable
  /\ ~parseVersion(opt[p].available).ok

C13_CancelledNeverInstalls ==
  \A p \in Procs :
    cancelRequested[p] =>
      /\ download[p] # "resolved"
      /\ ~Shown(p, ExecuteInstaller(TmpPath(p)))

(***************************************************************************)
(* C14.  downloadFile resolves only in the 'end' handler of a response     *)
(* with status 200; with any other status it rejects, never resolves,      *)
(* and no byte of the response is written to the temp file.                *)
(***************************************************************************)
C14_ResolvesOnlyAfter200AndEnd ==
  [][\A p \in Procs :
       /\ download'[p] = "resolved" =>
            /\ statusCode'[p] = <<200>>
            /\ download[p] = "resolved" \/ pc[p] \in {"response", "aborted"}
            /\ Shown(p, LogInfoDownloaded(TmpPath(p)))'
       /\ statusCode'[p] \notin {<<>>, <<200>>} =>
            /\ download'[p] = "rejected: Non-200"
            /\ pc'[p] = "returned"
            /\ tmpfile'[p] = <<0>>]_vars

\* A response with status 404 made the download reject with an empty file.
C14_Witness ==
  \E p \in Procs :
    /\ statusCode[p] = <<404>>
    /\ download[p] = "rejected: Non-200"
    /\ tmpfile[p] = <<0>>

(***************************************************************************)
(* C15.  As claimed: once the connection was lost in the middle of the     *)
(* body, downloadFile has failed with the transport error.                 *)
(***************************************************************************)
C15_LostConnectionRejects ==
  \A p \in Procs : pc[p] = "aborted" => download[p] = "rejected: request error"

(***************************************************************************)
(* C16.  As claimed: after a download that failed, its temp file is not    *)
(* on disk.                                                                *)
(***************************************************************************)
C16_FailedDownloadLeavesNoFile ==
  \A p \in Procs : DownloadFailed(p) => tmpfile[p] = <<>>

(***************************************************************************)
(* C17.  With a declared total size that is a positive number, a 'data'    *)
(* event reports progress exactly when the bytes received since the last   *)
(* reported point are strictly more than 1% of the total, and then the     *)
(* reported point moves to the bytes received; otherwise nothing is        *)
(* reported and the reported point stays.                                  *)
(***************************************************************************)
DataStep(p) == chunks'[p] = chunks[p] + 1

C17_ReportsOnlyAboveOnePercent ==
  [][\A p \in Procs :
       (DataStep(p) /\ ~totalSize[p].nan /\ totalSize[p].val > 0) =>
         LET unreported == totalDownloaded'[p] - prevDownloaded[p] IN
         IF 100 * unreported > totalSize[p].val
           THEN /\ Len(progress'[p]) = Len(progress[p]) + 1
                /\ SubSeq(progress'[p], 1, Len(progress[p])) = progress[p]
                /\ progress'[p][Len(progress'[p])].increment.num = 100 * unreported
                /\ prevDownloaded'[p] = totalDownloaded'[p]
           ELSE /\ progress'[p] = progress[p]
                /\ prevDownloaded'[p] = prevDownloaded[p]]_vars

\* Of 200 bytes, 199 were reported and two more chunks brought exactly 1%:
\* nothing more was reported.
C17_Witness ==
  \E p \in Procs :
    /\ totalSize[p] = Num(200)
    /\ prevDownloaded[p] = 198
    /\ totalDownloaded[p] = 200
    /\ Len(progress[p]) = 1

(***************************************************************************)
(* C18.  As claimed: a download that reached end-of-stream has emitted a   *)
(* final completion (100%) progress notification, exactly once.            *)
(***************************************************************************)
Completions(p) == {i \in 1..Len(progress[p]) : progress[p][i].message = "100%"}

C18_FinalNotificationOnce ==
  \A p \in Procs : download[p] = "resolved" => Cardinality(Completions(p)) = 1

(***************************************************************************)
(* C19.  When the response declares no total size (no content-length, one  *)
(* that is no number, or 0), no 'data' event reports progress, and the     *)
(* 'end' event still makes downloadFile resolve with the path.             *)
(***************************************************************************)
NoTotal(p) == totalSize[p].nan \/ totalSize[p].val = 0

C19_NoTotalNoProgress ==
  [][\A p \in Procs :
       /\ (DataStep(p) /\ NoTotal(p)) => progress'[p] = <<>>
       /\ (pc[p] = "response" /\ NoTotal(p) /\ pc'[p] = "installer") =>
            /\ download'[p] = "resolved"
            /\ progress'[p] = <<>>
            /\ Shown(p, ExecuteInstaller(TmpPath(p)))']_vars

\* A response whose content-length is no number: 199 bytes were received
\* and nothing was reported.
C19_Witness ==
  \E p \in Procs :
    /\ pc[p] = "response"
    /\ totalSize[p] = NaN
    /\ totalDownloaded[p] = 199
    /\ progress[p] = <<>>

(***************************************************************************)
(* C20.  An invocation asks for a temp file, issues a request or runs the  *)
(* installer only after the user chose "Yes" in its own prompt.            *)
(***************************************************************************)
C20_NothingWithoutYes ==
  \A p \in Procs :
    ( \/ \E i \in 1..Len(effects[p]) : effects[p][i].op \in {"tmp.file", "https.get", "execute"}
      \/ tmpfile[p] # <<>>
      \/ download[p] # "none"
      \/ statusCode[p] # <<>> )
    => /\ chosen[p] = doTheUpgrade
       /\ effects[p][1] = UpgradePrompt

\* The installer ran in an invocation whose prompt was answered "Yes".
C20_Witness ==
  \E p \in Procs :
    /\ Shown(p, ExecuteInstaller(TmpPath(p)))
    /\ chosen[p] = doTheUpgrade

(***************************************************************************)
(* C21.  As claimed: two invocations never both have a prompt, a download  *)
(* or an installer in flight at the same time, also when a call is made    *)
(* while an earlier call is outstanding.                                   *)
(***************************************************************************)
InFlight(p) ==
  pc[p] \in {"prompt", "update", "which", "tmp.file", "request", "response", "aborted",
             "installer", "restart"}

C21_NeverTwoInFlight ==
  \A p, q \in Procs : (InFlight(p) /\ InFlight(q)) => p = q

(***************************************************************************)
(* C22.  As claimed: with a stored value of unrecognized shape a call      *)
(* raises no error and goes on to the version comparison as if nothing     *)
(* were stored: it prompts exactly when the advertised version is greater. *)
(***************************************************************************)
C22_UnrecognizedIsUnset ==
  [][\A p \in Procs :
       (Invoked(p) /\ platform = "linux" /\ globalState \in Unrecognized) =>
         /\ ret'[p] # "rejected"
         /\ pc'[p] = "prompt" <=> AdvertisedGreater(opt'[p])
         /\ pc'[p] = "returned" /\ ret'[p] = "undefined" =>
              parseVersion(opt'[p].available).ok]_vars

(***************************************************************************)
(* C23.  As claimed: every invocation eventually returns, when the user    *)
(* answers, the installer exits and the transport delivers the end of the  *)
(* body or a failure.                                                      *)
(***************************************************************************)
C23_EveryInvocationReturns ==
  \A p \in Procs : Outstanding(p) ~> ~Outstanding(p)

(***************************************************************************)
(* C24.  As claimed: once the store holds 'never', no step of any          *)
(* invocation replaces it.                                                 *)
(***************************************************************************)
C24_NeverIsNeverReplaced ==
  [][globalState = Never => globalState' = Never]_vars

(***************************************************************************)
(* C25.  Within one invocation the installer is executed at most once,     *)
(* only when the download has resolved, and on the path downloadFile       *)
(* resolved with; every outcome message, the restart offer and the reload  *)
(* come after it and only once the installer has exited.                   *)
(***************************************************************************)
Executions(p) == {i \in 1..Len(effects[p]) : effects[p][i].op = "execute"}

AfterInstaller == Outcomes \cup {LogErrorStderr, ReloadWindow}

C25_InstallerOnceAfterDownload ==
  \A p \in Procs :
    /\ Cardinality(Executions(p)) <= 1
    /\ \A i \in Executions(p) :
         /\ download[p] = "resolved"
         /\ i > 1
         /\ effects[p][i - 1].op = "log.info"
         /\ effects[p][i].arg = effects[p][i - 1].arg
    /\ \A j \in 1..Len(effects[p]) :
         effects[p][j] \in AfterInstaller =>
           /\ res[p] # <<>>
           /\ \E i \in Executions(p) : i < j

\* The installer has run once, has exited with 1, and the error was shown.
C25_Witness ==
  \E p \in Procs :
    /\ Cardinality(Executions(p)) = 1
    /\ res[p] = <<1>>
    /\ Shown(p, NonZeroError)

(***************************************************************************)
(* C26.  The window is reloaded only when the installer exited with 0 and  *)
(* the user chose "Restart Now" in the success message: not when the       *)
(* message is dismissed, and not after any failed install.                 *)
(***************************************************************************)
C26_ReloadOnlyOnRestartNow ==
  \A p \in Procs :
    /\ Shown(p, ReloadWindow) <=> restart[p] = restartNow
    /\ restart[p] # NoChoice => res[p] = <<0>> /\ Shown(p, SuccessMessage)
    /\ restart[p] = Dismissed => pc[p] = "returned" /\ ret[p] = "undefined"
    /\ Cardinality({i \in 1..Len(effects[p]) : effects[p][i] = ReloadWindow}) <= 1

\* The success message was dismissed and the invocation returned without a
\* reload.
C26_Witness ==
  \E p \in Procs :
    /\ restart[p] = Dismissed
    /\ res[p] = <<0>>
    /\ pc[p] = "returned"
    /\ ~Shown(p, ReloadWindow)

(***************************************************************************)
(* C27.  As claimed: when downloadFile has resolved, every byte received   *)
(* is on disk and the write stream has finished and closed.                *)
(***************************************************************************)
C27_ResolvesAfterStreamFinished ==
  \A p \in Procs :
    download[p] = "resolved" => ostream[p] = [state |-> "closed", pending |-> 0]

(***************************************************************************)
(* C28.  While the total size is a positive number: prevDownloaded never   *)
(* exceeds totalDownloaded and never decreases, the increments reported    *)
(* so far add up to 100 * prevDownloaded / totalSize, and when the body    *)
(* ends at the declared length at most 1% of the total is unreported.      *)
(***************************************************************************)
RECURSIVE SumOfIncrements(_)
SumOfIncrements(reports) ==
  IF reports = <<>> THEN 0
  ELSE reports[1].increment.num + SumOfIncrements(Tail(reports))

C28_ReportedNeverExceedsReceived ==
  [][\A p \in Procs :
       /\ (~totalSize'[p].nan /\ totalSize'[p].val > 0) =>
            /\ prevDownloaded'[p] <= totalDownloaded'[p]
            /\ SumOfIncrements(progress'[p]) = 100 * prevDownloaded'[p]
            /\ \A i \in 1..Len(progress'[p]) :
                 progress'[p][i].increment.den = totalSize'[p].val
            /\ totalSize[p] = totalSize'[p] => prevDownloaded'[p] >= prevDownloaded[p]
       /\ ( /\ pc[p] = "response"
            /\ download'[p] = "resolved"
            /\ ~totalSize[p].nan /\ totalSize[p].val > 0 ) =>
            /\ totalDownloaded[p] = totalSize[p].val
            /\ 100 * (totalDownloaded[p] - prevDownloaded[p]) <= totalSize[p].val]_vars

\* All 200 bytes were received in chunks of 2, 197 and 1 bytes: 199 are
\* reported in one increment and the last byte is not.
C28_Witness ==
  \E p \in Procs :
    /\ totalSize[p] = Num(200)
    /\ totalDownloaded[p] = 200
    /\ prevDownloaded[p] = 199
    /\ Len(progress[p]) = 1

(***************************************************************************)
(* C29.  pkexec is looked up before the download: an invocation asks for   *)
(* a temp file only once pkexec was found, and when pkexec is missing it   *)
(* has no temp file, no write stream and no request.                       *)
(***************************************************************************)
C29_LookupPrecedesDownload ==
  \A p \in Procs :
    /\ pkexec[p] = "undefined" =>
         /\ tmpfile[p] = <<>>
         /\ ostream[p] = NoStream
         /\ download[p] = "none"
         /\ statusCode[p] = <<>>
         /\ \A i \in 1..Len(effects[p]) : effects[p][i].op \notin {"tmp.file", "https.get"}
    /\ (Shown(p, TmpFile) \/ tmpfile[p] # <<>>) => pkexec[p] = PkexecPath

\* pkexec was not found: the invocation returned with no temp file.
C29_Witness ==
  \E p \in Procs :
    /\ pkexec[p] = "undefined"
    /\ pc[p] = "returned"
    /\ tmpfile[p] = <<>>
    /\ ~Shown(p, TmpFile)

=============================================================================
